---- MODULE Spec2Model ----
(***************************************************************************)
(* A model of the movie recommender of src/project.py: the TF-IDF          *)
(* vectorizer, the cosine scorer, the content-based recommender and the    *)
(* user-based collaborative recommender, as operations on a catalog table  *)
(* (movies_df) and a rating log (ratings_df).                              *)
(*                                                                         *)
(* Representation.                                                         *)
(*  - A string is a sequence of one-character strings, so that lower(),    *)
(*    replace(), split() and the substring test are computed, not assumed. *)
(*  - A DataFrame is a record [columns, rows]; a row is a record.          *)
(*  - Reals are fixed point.  ln is a table in hundredths (Ln100), a TF-IDF*)
(*    weight is tf * (Ln100[N] - Ln100[1 + df]), exactly 0 iff N = 1 + df  *)
(*    as in floating point (log(1.0) = 0.0).  A cosine and a Pearson       *)
(*    correlation are in thousandths, truncated toward zero.  A predicted  *)
(*    rating is the exact fraction weighted_sum / score of those.          *)
(*  - Positions are 1-based (Python's index i is position i + 1).          *)
(***************************************************************************)
EXTENDS Integers, Sequences, FiniteSets, TLC

VARIABLES movies_df, ratings_df, call, result, out, raised,
          movie_idx, vectors, similar_users, predictions

vars == <<movies_df, ratings_df, call, result, out, raised,
          movie_idx, vectors, similar_users, predictions>>

(***************************************************************************)
(* Bounds of the model.                                                    *)
(***************************************************************************)
\* Largest catalog (rows of movies_df) the inputs hold.
MaxCatalog == 3
\* Largest n a call is made with.
MaxN == 3
\* Most users of the rating log besides user 1.
MaxOthers == 2

(***************************************************************************)
(* Library functions the code uses.                                        *)
(***************************************************************************)
Min(a, b) == IF a <= b THEN a ELSE b

Abs(x) == IF x < 0 THEN -x ELSE x

\* seq[:n] for n >= 0
Take(seq, n) == SubSeq(seq, 1, Min(n, Len(seq)))

\* The positions of seq holding an element that satisfies keep, in order.
RECURSIVE FilterIdx(_, _)
FilterIdx(flags, i) ==
  IF i > Len(flags) THEN <<>>
  ELSE (IF flags[i] THEN <<i>> ELSE <<>>) \o FilterIdx(flags, i + 1)

\* list.sort(key=..., reverse=True): a stable sort, descending.  gt[i, j]
\* says that the key of seq[i] is greater than the key of seq[j]; elements
\* with equal keys keep their order.
SortDesc(seq, gt) ==
  LET before(i) == {j \in DOMAIN seq : gt[j, i] \/ (~gt[i, j] /\ j < i)}
  IN  [k \in DOMAIN seq |->
         seq[CHOOSE i \in DOMAIN seq : Cardinality(before(i)) + 1 = k]]

\* str.lower() on the alphabet of the model
LowerChar(c) ==
  CASE c = "A" -> "a"
    [] c = "B" -> "b"
    [] OTHER -> c

lower(s) == [i \in DOMAIN s |-> LowerChar(s[i])]

\* str.replace(old, new) for one-character old and new
replace(s, old, new) == [i \in DOMAIN s |-> IF s[i] = old THEN new ELSE s[i]]

\* q in t  (substring)
Contains(t, q) ==
  \E i \in 1..(Len(t) - Len(q) + 1) : SubSeq(t, i, i + Len(q) - 1) = q

\* str.split(): split at runs of whitespace, no empty token
RECURSIVE SplitFrom(_, _, _)
SplitFrom(s, i, cur) ==
  IF i > Len(s) THEN (IF cur = <<>> THEN <<>> ELSE <<cur>>)
  ELSE IF s[i] = " "
       THEN (IF cur = <<>> THEN <<>> ELSE <<cur>>) \o SplitFrom(s, i + 1, <<>>)
       ELSE SplitFrom(s, i + 1, Append(cur, s[i]))

split(s) == SplitFrom(s, 1, <<>>)

\* floor(sqrt(x)) for x >= 0, by bisection
RECURSIVE IsqrtIn(_, _, _)
IsqrtIn(x, lo, hi) ==
  IF lo >= hi THEN lo
  ELSE LET mid == (lo + hi + 1) \div 2
       IN  IF mid * mid <= x THEN IsqrtIn(x, mid, hi) ELSE IsqrtIn(x, lo, mid - 1)

Isqrt(x) == IsqrtIn(x, 0, Min(x, 46340))

\* 100 * ln(k), rounded, k = 1..8
Ln100 == <<0, 69, 110, 139, 161, 179, 195, 208>>

\* sum of f over the finite set S
RECURSIVE SumOver(_, _)
SumOver(S, f) ==
  IF S = {} THEN 0
  ELSE LET x == CHOOSE y \in S : TRUE IN f[x] + SumOver(S \ {x}, f)

(***************************************************************************)
(* compute_tfidf and cosine_similarity                                     *)
(***************************************************************************)
TermsOf(tokens) == {tokens[i] : i \in DOMAIN tokens}

\* Idf as the comment above it in the source has it: log(total docs / docs
\* with term), without the 1 +
MutIdf(n_docs, doc_freq) == Ln100[n_docs] - Ln100[doc_freq]

\* math.log(n_docs / (1 + term_doc_freq[term])), in hundredths
Idf(n_docs, doc_freq) == Ln100[n_docs] - Ln100[1 + doc_freq]

compute_tfidf(documents) ==
  LET doc_tokens == [d \in DOMAIN documents |-> split(documents[d])]
      term_doc_freq(term) ==
        Cardinality({d \in DOMAIN documents : term \in TermsOf(doc_tokens[d])})
      n_docs == Len(documents)
      term_freq(tokens, term) ==
        Cardinality({i \in DOMAIN tokens : tokens[i] = term})
  IN  [d \in DOMAIN documents |->
         [term \in TermsOf(doc_tokens[d]) |->
            term_freq(doc_tokens[d], term) * Idf(n_docs, term_doc_freq(term))]]

\* sum(val**2 for val in vec.values()): the square of the magnitude
SquaredMagnitude(vec) == SumOver(DOMAIN vec, [t \in DOMAIN vec |-> vec[t] * vec[t]])

\* dot_product / (mag1 * mag2) in thousandths, truncated toward zero
Quotient(dot_product, sq1, sq2) ==
  LET q == (1000 * Abs(dot_product)) \div Isqrt(sq1 * sq2)
  IN  IF dot_product < 0 THEN -q ELSE q

cosine_similarity(vec1, vec2) ==
  LET common_terms == DOMAIN vec1 \cap DOMAIN vec2
      dot_product == SumOver(common_terms,
                             [t \in common_terms |-> vec1[t] * vec2[t]])
      sq1 == SquaredMagnitude(vec1)
      sq2 == SquaredMagnitude(vec2)
  IN  IF common_terms = {} THEN 0
      ELSE IF sq1 = 0 \/ sq2 = 0 THEN 0
      ELSE Quotient(dot_product, sq1, sq2)

(***************************************************************************)
(* DataFrames                                                              *)
(***************************************************************************)
\* pd.DataFrame(): no column, no row
EmptyFrame == [columns |-> <<>>, rows |-> <<>>]

HasColumn(df, name) == \E c \in DOMAIN df.columns : df.columns[c] = name

\* df[name] = values: the column is replaced in place, or appended
SetColumn(df, name, values) ==
  [columns |-> IF HasColumn(df, name) THEN df.columns ELSE Append(df.columns, name),
   rows |-> [i \in DOMAIN df.rows |->
               [f \in DOMAIN df.rows[i] \cup {name} |->
                  IF f = name THEN values[i] ELSE df.rows[i][f]]]]

(***************************************************************************)
(* content_based_recommendations                                           *)
(***************************************************************************)
\* movies_df['genres_text'] = movies_df['genres'].str.replace('|', ' ')
AddGenresText(df) ==
  SetColumn(df, "genres_text",
            [i \in DOMAIN df.rows |-> replace(df.rows[i].genres, "|", " ")])

\* FindMovie with one loop for both tests: the first title that equals or
\* contains the query
MutFindMovie(rows, movie_title) ==
  LET exact(i) == lower(rows[i].title) = lower(movie_title)
      match == {i \in DOMAIN rows :
                  exact(i) \/ Contains(lower(rows[i].title), lower(movie_title))}
      first == CHOOSE i \in match : \A j \in match : i <= j
  IN  IF match = {} THEN [idx |-> 0, found |-> "none"]
      ELSE [idx |-> first, found |-> IF exact(first) THEN "exact" ELSE "partial"]

\* The two title loops: the first exact match, else the first partial match,
\* else None (0).  found is "exact", "partial" or "none".
FindMovie(rows, movie_title) ==
  LET exact == {i \in DOMAIN rows : lower(rows[i].title) = lower(movie_title)}
      partial == {i \in DOMAIN rows :
                    Contains(lower(rows[i].title), lower(movie_title))}
      first(S) == CHOOSE i \in S : \A j \in S : i <= j
  IN  IF exact # {} THEN [idx |-> first(exact), found |-> "exact"]
      ELSE IF partial # {} THEN [idx |-> first(partial), found |-> "partial"]
      ELSE [idx |-> 0, found |-> "none"]

\* WithoutInput that drops nothing
MutWithoutInput(similarities, idx) == similarities

\* similarities = [(i, score) ... if i != movie_idx]
WithoutInput(similarities, idx) ==
  LET keep == FilterIdx([k \in DOMAIN similarities |->
                           similarities[k].i # idx], 1)
  IN  [k \in DOMAIN keep |-> similarities[keep[k]]]

ScoreGt(a, b) == a.score > b.score

\* similarities.sort(key=lambda x: x[1], reverse=True)
SortSimilarities(similarities) ==
  SortDesc(similarities,
           [i, j \in DOMAIN similarities |-> ScoreGt(similarities[i], similarities[j])])

\* The value of the call: the table as the call leaves it, the returned
\* frame, the lines printed, the index the title resolved to and the vectors.
content_based_recommendations(df, movie_title, n) ==
  LET df1 == AddGenresText(df)
      rows == df1.rows
      tfidf_vectors == compute_tfidf([i \in DOMAIN rows |-> rows[i].genres_text])
      m == FindMovie(rows, movie_title)
      similarities ==
        [i \in DOMAIN rows |->
           [i |-> i,
            score |-> cosine_similarity(tfidf_vectors[m.idx], tfidf_vectors[i])]]
      ranked == SortSimilarities(WithoutInput(similarities, m.idx))
      top == Take(ranked, n)
  IN  IF m.found = "none"
      THEN [df |-> df1, movie_idx |-> 0, vectors |-> tfidf_vectors,
            out |-> <<[msg |-> "not found", arg |-> movie_title]>>,
            frame |-> EmptyFrame]
      ELSE [df |-> df1, movie_idx |-> m.idx, vectors |-> tfidf_vectors,
            out |-> IF m.found = "partial"
                    THEN <<[msg |-> "Using closest match",
                            arg |-> rows[m.idx].title]>>
                    ELSE <<>>,
            frame |-> [columns |-> <<"title", "genres", "similarity">>,
                       rows |-> [k \in DOMAIN top |->
                                   [index |-> top[k].i,
                                    title |-> rows[top[k].i].title,
                                    genres |-> rows[top[k].i].genres,
                                    similarity |-> top[k].score]]]]

(***************************************************************************)
(* collaborative_recommendations                                           *)
(***************************************************************************)
\* if len(common_movies) < 5: continue
MinCommon == 5
\* similar_users[:10]
TopUsers == 10
\* similar_user_ratings['rating'] >= 4.0
HighRating == 4

Digits == <<"0", "1", "2", "3", "4", "5", "6", "7", "8", "9">>

IsDigit(c) == \E d \in DOMAIN Digits : Digits[d] = c

DigitValue(c) == (CHOOSE d \in DOMAIN Digits : Digits[d] = c) - 1

RECURSIVE DecimalValue(_)
DecimalValue(s) ==
  IF s = <<>> THEN 0
  ELSE 10 * DecimalValue(SubSeq(s, 1, Len(s) - 1)) + DigitValue(s[Len(s)])

\* int(user_id): an int is itself, a string of digits its value, any other
\* string a ValueError.
ToInt(user_id) ==
  IF user_id.kind = "int" THEN [ok |-> TRUE, val |-> user_id.val]
  ELSE IF user_id.val # <<>> /\ \A i \in DOMAIN user_id.val : IsDigit(user_id.val[i])
       THEN [ok |-> TRUE, val |-> DecimalValue(user_id.val)]
       ELSE [ok |-> FALSE, val |-> 0]

\* Series.unique(): the values in order of first appearance
RECURSIVE UniqueFrom(_, _, _)
UniqueFrom(seq, i, seen) ==
  IF i > Len(seq) THEN <<>>
  ELSE IF seq[i] \in seen THEN UniqueFrom(seq, i + 1, seen)
       ELSE <<seq[i]>> \o UniqueFrom(seq, i + 1, seen \cup {seq[i]})

UserIds(ratings) == UniqueFrom([i \in DOMAIN ratings |-> ratings[i].userId], 1, {})

\* UserExists as "user_id in ratings_df['userId']", which looks the id up
\* among the row labels 0 .. len - 1 and not among the values
MutUserExists(ratings, user) == user \in 0..(Len(ratings) - 1)

\* user_id not in ratings_df['userId'].unique()
UserExists(ratings, user) == \E i \in DOMAIN ratings : ratings[i].userId = user

\* ratings_df[ratings_df['userId'] == user]: the user's rows, in log order
RatingsOf(ratings, user) ==
  LET keep == FilterIdx([i \in DOMAIN ratings |-> ratings[i].userId = user], 1)
  IN  [k \in DOMAIN keep |-> ratings[keep[k]]]

MoviesOf(rows) == {rows[i].movieId : i \in DOMAIN rows}

\* rows[rows['movieId'] == movie_id]['rating'].values[0]: the first such row's
FirstRating(rows, movie_id) ==
  rows[CHOOSE i \in DOMAIN rows :
         /\ rows[i].movieId = movie_id
         /\ \A j \in DOMAIN rows : rows[j].movieId = movie_id => i <= j].rating

\* np.corrcoef(xs, ys)[0, 1] over the movies of common, in thousandths; nan
\* (defined = FALSE) when either sequence has no variance.
corrcoef(common, xs, ys) ==
  LET n == Cardinality(common)
      sx == SumOver(common, xs)
      sy == SumOver(common, ys)
      sxy == SumOver(common, [m \in common |-> xs[m] * ys[m]])
      sxx == SumOver(common, [m \in common |-> xs[m] * xs[m]])
      syy == SumOver(common, [m \in common |-> ys[m] * ys[m]])
      c == n * sxy - sx * sy
      vx == n * sxx - sx * sx
      vy == n * syy - sy * sy
  IN  IF vx = 0 \/ vy = 0 THEN [defined |-> FALSE, value |-> 0]
      ELSE [defined |-> TRUE, value |-> Quotient(c, vx, vy)]

\* common_movies of the target's rows and another user's rows
CommonMovies(user_ratings, other_ratings) ==
  MoviesOf(other_ratings) \cap MoviesOf(user_ratings)

\* TooFewCommon with the threshold off by one
MutTooFewCommon(common_movies) == Cardinality(common_movies) < MinCommon - 1

\* len(common_movies) < 5: the user is skipped
TooFewCommon(common_movies) == Cardinality(common_movies) < MinCommon

\* The body of the loop over the other users: nothing for a user that is
\* skipped, else the pair (other_user, similarity).
Neighbor(ratings, user, other_user) ==
  LET user_ratings == RatingsOf(ratings, user)
      other_ratings == RatingsOf(ratings, other_user)
      common_movies == CommonMovies(user_ratings, other_ratings)
      similarity ==
        corrcoef(common_movies,
                 [m \in common_movies |-> FirstRating(user_ratings, m)],
                 [m \in common_movies |-> FirstRating(other_ratings, m)])
  IN  IF other_user = user THEN <<>>
      ELSE IF TooFewCommon(common_movies) THEN <<>>
      ELSE IF ~similarity.defined THEN <<>>
      ELSE <<[user |-> other_user, similarity |-> similarity.value]>>

RECURSIVE SimilarUsersFrom(_, _, _, _)
SimilarUsersFrom(ratings, user, others, i) ==
  IF i > Len(others) THEN <<>>
  ELSE Neighbor(ratings, user, others[i])
         \o SimilarUsersFrom(ratings, user, others, i + 1)

SimilarityGt(a, b) == a.similarity > b.similarity

\* similar_users after similar_users.sort(key=lambda x: x[1], reverse=True)
SimilarUsers(ratings, user) ==
  LET found == SimilarUsersFrom(ratings, user, UserIds(ratings), 1)
  IN  SortDesc(found, [i, j \in DOMAIN found |-> SimilarityGt(found[i], found[j])])

\* HighRated without the test that the target has not rated the movie
MutHighRated(ratings, user_rated_movies, neighbor) ==
  LET keep == FilterIdx([i \in DOMAIN ratings |->
                           /\ ratings[i].userId = neighbor.user
                           /\ ratings[i].rating >= HighRating], 1)
  IN  [k \in DOMAIN keep |->
         [movieId |-> ratings[keep[k]].movieId,
          rating |-> ratings[keep[k]].rating,
          similarity |-> neighbor.similarity]]

\* The rows a neighbor contributes: its rows on movies the target has not
\* rated, with a rating of at least 4.0, in log order.
HighRated(ratings, user_rated_movies, neighbor) ==
  LET keep == FilterIdx([i \in DOMAIN ratings |->
                           /\ ratings[i].userId = neighbor.user
                           /\ ratings[i].movieId \notin user_rated_movies
                           /\ ratings[i].rating >= HighRating], 1)
  IN  [k \in DOMAIN keep |->
         [movieId |-> ratings[keep[k]].movieId,
          rating |-> ratings[keep[k]].rating,
          similarity |-> neighbor.similarity]]

RECURSIVE Contributions(_, _, _, _)
Contributions(ratings, user_rated_movies, neighbors, i) ==
  IF i > Len(neighbors) THEN <<>>
  ELSE HighRated(ratings, user_rated_movies, neighbors[i])
         \o Contributions(ratings, user_rated_movies, neighbors, i + 1)

\* candidate_movies, a dict in insertion order, after the rows[1..k]
RECURSIVE Accumulate(_, _)
Accumulate(rows, k) ==
  IF k = 0 THEN <<>>
  ELSE LET acc == Accumulate(rows, k - 1)
           r == rows[k]
           known == \E c \in DOMAIN acc : acc[c].movieId = r.movieId
           add(e) == [movieId |-> e.movieId,
                      weighted_sum |-> e.weighted_sum + r.rating * r.similarity,
                      score |-> e.score + r.similarity]
       IN  IF known
           THEN [c \in DOMAIN acc |->
                   IF acc[c].movieId = r.movieId THEN add(acc[c]) ELSE acc[c]]
           ELSE Append(acc, add([movieId |-> r.movieId, weighted_sum |-> 0,
                                 score |-> 0]))

\* if data['score'] > 0: the movie gets a predicted rating
HasPrediction(data) == data.score > 0

\* predictions, before the sort: (movie_id, weighted_sum / score), the
\* quotient kept as the fraction num / den with den > 0
Predict(candidate_movies) ==
  LET keep == FilterIdx([c \in DOMAIN candidate_movies |->
                           HasPrediction(candidate_movies[c])], 1)
  IN  [k \in DOMAIN keep |->
         [movieId |-> candidate_movies[keep[k]].movieId,
          num |-> candidate_movies[keep[k]].weighted_sum,
          den |-> candidate_movies[keep[k]].score]]

\* a's predicted rating > b's
PredictedGt(a, b) == a.num * b.den > b.num * a.den

\* SortPredictions that leaves the predictions as they were collected
MutNoSortPredictions(preds) == preds

\* SortPredictions that breaks a tie by the movie id
PredictedOrIdGt(a, b) ==
  \/ PredictedGt(a, b)
  \/ (~PredictedGt(b, a) /\ a.movieId < b.movieId)

MutSortPredictionsById(preds) ==
  SortDesc(preds, [i, j \in DOMAIN preds |-> PredictedOrIdGt(preds[i], preds[j])])

\* predictions.sort(key=lambda x: x[1], reverse=True)
SortPredictions(preds) ==
  SortDesc(preds, [i, j \in DOMAIN preds |-> PredictedGt(preds[i], preds[j])])

\* The loop over top_movies: the catalog's first row of the movie, if any
MovieDetails(rows, top_movies) ==
  LET keep == FilterIdx([k \in DOMAIN top_movies |->
                           \E i \in DOMAIN rows :
                              rows[i].movieId = top_movies[k].movieId], 1)
      first(movie_id) ==
        CHOOSE i \in DOMAIN rows :
          /\ rows[i].movieId = movie_id
          /\ \A j \in DOMAIN rows : rows[j].movieId = movie_id => i <= j
  IN  [k \in DOMAIN keep |->
         [movieId |-> top_movies[keep[k]].movieId,
          title |-> rows[first(top_movies[keep[k]].movieId)].title,
          genres |-> rows[first(top_movies[keep[k]].movieId)].genres,
          predicted_rating |-> [num |-> top_movies[keep[k]].num,
                                den |-> top_movies[keep[k]].den]]]

\* The value of the call.  movieId in a returned row is the movie the row
\* was made for (the frame's columns are title, genres, predicted_rating).
collaborative_recommendations(ratings, df, user_id, n) ==
  LET id == ToInt(user_id)
      user == id.val
      user_rated_movies == MoviesOf(RatingsOf(ratings, user))
      similar == SimilarUsers(ratings, user)
      candidate_movies ==
        LET rows == Contributions(ratings, user_rated_movies,
                                  Take(similar, TopUsers), 1)
        IN  Accumulate(rows, Len(rows))
      preds == SortPredictions(Predict(candidate_movies))
      found == MovieDetails(df.rows, Take(preds, n))
      nothing == [raised |-> FALSE, out |-> <<>>, similar_users |-> <<>>,
                  predictions |-> <<>>, frame |-> EmptyFrame]
  IN  IF ~id.ok THEN [nothing EXCEPT !.raised = TRUE]
      ELSE IF ~UserExists(ratings, user)
      THEN [nothing EXCEPT !.out = <<[msg |-> "User not found", arg |-> user]>>]
      ELSE [raised |-> FALSE, out |-> <<>>, similar_users |-> similar,
            predictions |-> preds,
            frame |-> IF found # <<>>
                      THEN [columns |-> <<"title", "genres", "predicted_rating">>,
                            rows |-> found]
                      ELSE EmptyFrame]

(***************************************************************************)
(* The inputs: catalog tables and rating logs as the loader hands them     *)
(* over (pd.read_csv in main), the titles and user ids typed in.           *)
(***************************************************************************)
Movie(id, title, genres) == [movieId |-> id, title |-> title, genres |-> genres]

CatalogRows ==
  { Movie(1, <<"a">>, <<"x">>),
    Movie(2, <<"A">>, <<"x", " ", "x", "|", "y">>),
    Movie(3, <<"a", "b">>, <<"y">>),
    Movie(4, <<"b">>, <<"x">>),
    Movie(5, <<"B", "a">>, <<>>) }

RECURSIVE SeqsUpTo(_, _)
SeqsUpTo(S, n) ==
  IF n = 0 THEN {<<>>}
  ELSE LET shorter == SeqsUpTo(S, n - 1)
       IN  shorter \cup {Append(q, x) : q \in shorter, x \in S}

Frame(rows) == [columns |-> <<"movieId", "title", "genres">>, rows |-> rows]

Catalogs == {Frame(rows) : rows \in SeqsUpTo(CatalogRows, MaxCatalog)}

\* The catalogs the rating logs are paired with: movies 1, 2 and 3 are the
\* ones the logs' users may be recommended.
FewCatalogs ==
  { Frame(<<Movie(2, <<"A">>, <<"x", "|", "y">>), Movie(1, <<"a">>, <<"x">>),
            Movie(3, <<"a", "b">>, <<"y">>), Movie(1, <<"b">>, <<"x">>)>>),
    Frame(<<Movie(3, <<"a", "b">>, <<"y">>), Movie(1, <<"a">>, <<"x">>),
            Movie(4, <<"b">>, <<"x">>)>>) }

Titles == {<<"A">>, <<"a", "b">>, <<"c">>, <<>>}

Rating(user, movie, rating) == [userId |-> user, movieId |-> movie, rating |-> rating]

\* A user's rows: ratings[k] for the movies[k], in that order
Block(user, movies, ratings) ==
  [k \in DOMAIN movies |-> Rating(user, movies[k], ratings[k])]

\* User 1 rates movies 11..15; it may also have rated movie 1, and may hold
\* a second row for movie 11; or it rates them all alike.
FirstUserBlocks ==
  { Block(1, <<11, 12, 13, 14, 15>>, <<1, 2, 3, 4, 5>>),
    Block(1, <<11, 12, 13, 14, 15, 1, 11>>, <<1, 2, 3, 4, 5, 5, 5>>),
    Block(1, <<11, 12, 13, 14, 15>>, <<3, 3, 3, 3, 3>>) }

\* What another user may have rated: movies of 11..15 and of 1..3.  Against
\* user 1's ratings 1, 2, 3, 4, 5 the blocks are: the same ratings; the same
\* on four movies only; the reverse; no variance; a correlation of 0.8.
OtherBlocks(user) ==
  { Block(user, <<11, 12, 13, 14, 15, 2, 1>>, <<1, 2, 3, 4, 5, 5, 5>>),
    Block(user, <<11, 12, 13, 14, 3, 1>>, <<1, 2, 3, 4, 5, 5>>),
    Block(user, <<11, 12, 13, 14, 15, 1, 2>>, <<5, 4, 3, 2, 1, 4, 5>>),
    Block(user, <<11, 12, 13, 14, 15, 2, 1>>, <<4, 4, 4, 4, 4, 5, 5>>),
    Block(user, <<11, 12, 13, 14, 15, 3, 1, 2>>, <<2, 1, 3, 5, 4, 4, 5, 3>>) }

\* The logs with user 1 and k other users (2 .. k + 1), block after block
RECURSIVE LogsWith(_)
LogsWith(k) ==
  IF k = 0 THEN FirstUserBlocks
  ELSE {log \o b : log \in LogsWith(k - 1), b \in OtherBlocks(k + 1)}

Logs == {<<>>} \cup UNION {LogsWith(k) : k \in 0..MaxOthers}

\* The one log the catalogs are paired with
FixedLog ==
  Block(1, <<11, 12, 13, 14, 15>>, <<1, 2, 3, 4, 5>>)
    \o Block(2, <<11, 12, 13, 14, 15, 1, 2>>, <<1, 2, 3, 4, 5, 4, 5>>)

IntId(v) == [kind |-> "int", val |-> v]

StrId(s) == [kind |-> "str", val |-> s]

\* The users a log may hold, as ints; "9", a user of no log; "x", no number
UserIdInputs ==
  {IntId(u) : u \in 1..(MaxOthers + 1)} \cup {StrId(<<"9">>), StrId(<<"x">>)}

(***************************************************************************)
(* The state machine: the tables, and the last call with what it returned  *)
(* (result), printed (out) and computed on the way.                        *)
(***************************************************************************)
NoCall ==
  /\ call = [fn |-> "none"]
  /\ result = EmptyFrame
  /\ out = <<>>
  /\ raised = FALSE
  /\ movie_idx = 0
  /\ vectors = <<>>
  /\ similar_users = <<>>
  /\ predictions = <<>>

InitContent ==
  /\ movies_df \in Catalogs
  /\ ratings_df = FixedLog
  /\ NoCall

InitCollab ==
  /\ movies_df \in FewCatalogs
  /\ ratings_df \in Logs
  /\ NoCall

Init == InitContent \/ InitCollab

\* main, choice 1: content_based_recommendations(movies_df, movie_title, n)
ContentCall(movie_title, n) ==
  /\ call.fn = "none"
  /\ \E r \in {content_based_recommendations(movies_df, movie_title, n)} :
       /\ movies_df' = r.df
       /\ call' = [fn |-> "content", movie_title |-> movie_title, n |-> n]
       /\ result' = r.frame
       /\ out' = r.out
       /\ raised' = FALSE
       /\ movie_idx' = r.movie_idx
       /\ vectors' = r.vectors
       /\ similar_users' = <<>>
       /\ predictions' = <<>>
       /\ UNCHANGED ratings_df

\* main, choice 2: collaborative_recommendations(ratings_df, movies_df, user_id, n)
CollabCall(user_id, n) ==
  /\ call.fn = "none"
  /\ \E r \in {collaborative_recommendations(ratings_df, movies_df, user_id, n)} :
       /\ call' = [fn |-> "collab", user_id |-> user_id, n |-> n]
       /\ result' = r.frame
       /\ out' = r.out
       /\ raised' = r.raised
       /\ movie_idx' = 0
       /\ vectors' = <<>>
       /\ similar_users' = r.similar_users
       /\ predictions' = r.predictions
       /\ UNCHANGED <<movies_df, ratings_df>>

\* main prints what the call returned (or the ValueError) and goes back to
\* its prompt; the tables stay as the call left them.
Return ==
  /\ call.fn # "none"
  /\ call' = [fn |-> "none"]
  /\ result' = EmptyFrame
  /\ out' = <<>>
  /\ raised' = FALSE
  /\ movie_idx' = 0
  /\ vectors' = <<>>
  /\ similar_users' = <<>>
  /\ predictions' = <<>>
  /\ UNCHANGED <<movies_df, ratings_df>>

Content == \E t \in Titles, n \in 0..MaxN : ContentCall(t, n)

Collab == \E u \in UserIdInputs, n \in 0..MaxN : CollabCall(u, n)

Next == Content \/ Collab \/ Return

Spec == Init /\ [][Next]_vars

(***************************************************************************)
(* What the claims speak of, read off the state after a call.              *)
(***************************************************************************)
Called(fn) == call.fn = fn

\* The user a collaborative call was made for
CalledUser == ToInt(call.user_id).val

\* A collaborative call that got past int() and the user test
Served == Called("collab") /\ ~raised /\ out = <<>>

LogRows(u) == {i \in DOMAIN ratings_df : ratings_df[i].userId = u}

RatedBy(u) == {ratings_df[i].movieId : i \in LogRows(u)}

LogUsers == {ratings_df[i].userId : i \in DOMAIN ratings_df}

\* The rating of u's first row for movie m
RatingBy(u, m) ==
  LET rs == {i \in LogRows(u) : ratings_df[i].movieId = m}
  IN  ratings_df[CHOOSE i \in rs : \A j \in rs : i <= j].rating

CommonWith(u) == RatedBy(u) \cap RatedBy(CalledUser)

\* Neither sequence of ratings over the common movies is constant
CorrelationDefined(u) ==
  /\ Cardinality({RatingBy(u, m) : m \in CommonWith(u)}) > 1
  /\ Cardinality({RatingBy(CalledUser, m) : m \in CommonWith(u)}) > 1

NeighborUsers == {similar_users[k].user : k \in DOMAIN similar_users}

\* u has a row that rates movie m 4 or more
RatesHigh(u, m) ==
  \E i \in LogRows(u) : ratings_df[i].movieId = m /\ ratings_df[i].rating >= 4

CatalogIds == {movies_df.rows[i].movieId : i \in DOMAIN movies_df.rows}

\* The terms of row i's genres
GenreTags(i) == TermsOf(split(replace(movies_df.rows[i].genres, "|", " ")))

SameIgnoringCase(a, b) ==
  Len(a) = Len(b) /\ \A i \in DOMAIN a : LowerChar(a[i]) = LowerChar(b[i])

ContainsIgnoringCase(t, q) ==
  \E i \in 0..(Len(t) - Len(q)) :
    \A k \in DOMAIN q : LowerChar(t[i + k]) = LowerChar(q[k])

Least(S) == CHOOSE i \in S : \A j \in S : i <= j

\* cosine_similarity of row d's vector with itself
SelfSimilarity(d) == cosine_similarity(vectors[d], vectors[d])

\* Some term of row d occurs in a number of rows other than N - 1
HasWeight(d) ==
  \E t \in GenreTags(d) :
    Cardinality({e \in DOMAIN movies_df.rows : t \in GenreTags(e)})
      # Len(movies_df.rows) - 1

\* Predicted ratings a >= b, as fractions
PredictedGeq(a, b) == a.num * b.den >= b.num * a.den

\* Where movie m was first seen in the aggregation: the rank of the first
\* neighbor that rates it high, and that neighbor's first such row
FirstNeighbor(m) ==
  Least({k \in DOMAIN similar_users : RatesHigh(similar_users[k].user, m)})

FirstRow(m) ==
  Least({i \in LogRows(similar_users[FirstNeighbor(m)].user) :
           ratings_df[i].movieId = m /\ ratings_df[i].rating >= 4})

SeenBefore(m1, m2) ==
  \/ FirstNeighbor(m1) < FirstNeighbor(m2)
  \/ FirstNeighbor(m1) = FirstNeighbor(m2) /\ FirstRow(m1) < FirstRow(m2)

(***************************************************************************)
(* The claims.                                                             *)
(***************************************************************************)

\* C1: the frame content_based_recommendations returns never holds the
\* catalog row the title resolved to; each returned row is another row of the
\* catalog, whatever its title and genres.
C1_InputNeverRecommended ==
  Called("content") =>
    \A k \in DOMAIN result.rows :
      /\ result.rows[k].index \in DOMAIN movies_df.rows
      /\ result.rows[k].index # movie_idx
      /\ result.rows[k].title = movies_df.rows[result.rows[k].index].title

\* C1, its case: a row with the title and the genres of the resolved row is
\* recommended.
C1_Witness ==
  /\ Called("content")
  /\ movie_idx # 0
  /\ \E k \in DOMAIN result.rows :
       /\ result.rows[k].title = movies_df.rows[movie_idx].title
       /\ result.rows[k].genres = movies_df.rows[movie_idx].genres

\* C2: no movie collaborative_recommendations predicts a rating for, and no
\* movie it returns, is one the target user has a rating for in the log.
C2_OnlyUnratedMovies ==
  Called("collab") =>
    /\ \A k \in DOMAIN predictions : predictions[k].movieId \notin RatedBy(CalledUser)
    /\ \A k \in DOMAIN result.rows : result.rows[k].movieId \notin RatedBy(CalledUser)

\* C2, its case: a neighbor rates high a movie of the catalog that the target
\* has rated, and the call returns rows.
C2_Witness ==
  /\ Served
  /\ result.rows # <<>>
  /\ call.n = MaxN
  /\ \E k \in DOMAIN similar_users, m \in RatedBy(CalledUser) \cap CatalogIds :
       similar_users[k].similarity > 0 /\ RatesHigh(similar_users[k].user, m)

\* C3 (the claim as made): on a catalog of three rows A, B, C where B has A's
\* genre tags and C has none of them, a call with A's title returns B before
\* C, with a greater similarity.
C3_SameGenresRankedFirst ==
  (/\ Called("content")
   /\ Len(movies_df.rows) = 3
   /\ movie_idx # 0
   /\ SameIgnoringCase(call.movie_title, movies_df.rows[movie_idx].title)
   /\ call.n >= 2) =>
    \A b, c \in DOMAIN movies_df.rows :
      (/\ {movie_idx, b, c} = DOMAIN movies_df.rows
       /\ GenreTags(movie_idx) # {}
       /\ GenreTags(b) = GenreTags(movie_idx)
       /\ GenreTags(c) \cap GenreTags(movie_idx) = {}) =>
        /\ result.rows[1].index = b
        /\ result.rows[2].index = c
        /\ result.rows[1].similarity > result.rows[2].similarity

\* C4: a user with fewer than 5 movies in common with the target is no
\* neighbor and adds to no predicted score (each score is the sum of the
\* similarities of the neighbors that rate the movie high); a user with 5
\* or more and a defined correlation is among the neighbor candidates.
C4_FiveCommonMovies ==
  Served =>
    /\ \A u \in LogUsers \ {CalledUser} :
         /\ Cardinality(CommonWith(u)) < 5 => u \notin NeighborUsers
         /\ (Cardinality(CommonWith(u)) >= 5 /\ CorrelationDefined(u))
              => u \in NeighborUsers
    /\ \A p \in DOMAIN predictions :
         predictions[p].den =
           SumOver({k \in DOMAIN similar_users :
                      RatesHigh(similar_users[k].user, predictions[p].movieId)},
                   [k \in DOMAIN similar_users |-> similar_users[k].similarity])

\* C4, its case: one user has exactly 4 movies in common and rates high a
\* movie the target has not rated, another has exactly 5 and is a neighbor,
\* and ratings are predicted.
C4_Witness ==
  /\ Served
  /\ predictions # <<>>
  /\ \E u4, u5 \in LogUsers \ {CalledUser} :
       /\ Cardinality(CommonWith(u4)) = 4
       /\ \E m \in RatedBy(u4) \ RatedBy(CalledUser) : RatesHigh(u4, m)
       /\ Cardinality(CommonWith(u5)) = 5
       /\ u5 \in NeighborUsers

\* C5: for a user id with no rating in the log the call reports the user
\* not found and returns the empty frame: nothing is raised, no neighbor is
\* computed and no rating predicted.
C5_UserNotFound ==
  (Called("collab") /\ ToInt(call.user_id).ok /\ CalledUser \notin LogUsers) =>
    /\ ~raised
    /\ out = <<[msg |-> "User not found", arg |-> CalledUser]>>
    /\ result = EmptyFrame
    /\ similar_users = <<>>
    /\ predictions = <<>>

\* C5, its case: a user without ratings is asked for, in a log where another
\* user has ratings.
C5_Witness ==
  /\ Called("collab")
  /\ ToInt(call.user_id).ok
  /\ CalledUser \notin LogUsers
  /\ Cardinality(LogUsers) >= 2
  /\ out # <<>>

C7_AtMostNDescending ==
  /\ Called("content") =>
       /\ Len(result.rows) <= call.n
       /\ \A k \in 1..(Len(result.rows) - 1) :
            result.rows[k].similarity >= result.rows[k + 1].similarity
  /\ Called("collab") =>
       /\ Len(result.rows) <= call.n
       /\ \A k \in 1..(Len(result.rows) - 1) :
            PredictedGeq(result.rows[k].predicted_rating,
                         result.rows[k + 1].predicted_rating)

\* C7, its case: a collaborative call whose n best predictions hold a movie
\* the catalog lacks returns two rows or more, the first with the greater
\* predicted rating.
C7_Witness ==
  /\ Served
  /\ \E k \in 1..Min(call.n, Len(predictions)) :
       predictions[k].movieId \notin CatalogIds
  /\ Len(result.rows) >= 2
  /\ ~PredictedGeq(result.rows[2].predicted_rating, result.rows[1].predicted_rating)

\* C8: two movies with equal predicted ratings are returned in the order in
\* which the aggregation first saw them: by the rank of the first neighbor
\* rating them high, then by that neighbor's rows in log order.
C8_TiesInFirstSeenOrder ==
  Served =>
    \A i, j \in DOMAIN result.rows :
      (/\ i < j
       /\ PredictedGeq(result.rows[j].predicted_rating,
                       result.rows[i].predicted_rating)) =>
        SeenBefore(result.rows[i].movieId, result.rows[j].movieId)

\* C8, its case: two neighbors have the same correlation, and of two movies
\* with equal predicted ratings the one with the greater id comes first.
C8_Witness ==
  /\ Served
  /\ \E a, b \in DOMAIN similar_users :
       a # b /\ similar_users[a].similarity = similar_users[b].similarity
  /\ \E i, j \in DOMAIN result.rows :
       /\ i < j
       /\ PredictedGeq(result.rows[j].predicted_rating,
                       result.rows[i].predicted_rating)
       /\ result.rows[i].movieId > result.rows[j].movieId

\* C9 (the claim as made): no call changes the catalog table or the rating
\* log.
C9_TablesUnchanged ==
  [][movies_df' = movies_df /\ ratings_df' = ratings_df]_vars

\* C10: the title resolves to the first row whose title equals it, case
\* ignored, if there is one; else to the first row whose title contains it,
\* case ignored, and that title is printed; else to no row, and the empty
\* frame is returned.
C10_TitleResolution ==
  Called("content") =>
    LET rows == movies_df.rows
        exact == {i \in DOMAIN rows : SameIgnoringCase(rows[i].title, call.movie_title)}
        partial == {i \in DOMAIN rows :
                      ContainsIgnoringCase(rows[i].title, call.movie_title)}
    IN  /\ exact # {} => movie_idx = Least(exact) /\ out = <<>>
        /\ (exact = {} /\ partial # {}) =>
             /\ movie_idx = Least(partial)
             /\ out = <<[msg |-> "Using closest match", arg |-> rows[movie_idx].title]>>
        /\ partial = {} => movie_idx = 0 /\ result = EmptyFrame

\* C10, its case: the title resolves to a row that equals it although an
\* earlier row contains it, and rows are returned.
C10_Witness ==
  /\ Called("content")
  /\ movie_idx > 1
  /\ SameIgnoringCase(movies_df.rows[movie_idx].title, call.movie_title)
  /\ \E j \in 1..(movie_idx - 1) :
       ContainsIgnoringCase(movies_df.rows[j].title, call.movie_title)
  /\ result.rows # <<>>

====
